---------------------------- MODULE Spec2Model ----------------------------
(***************************************************************************)
(* Model of DetectorCuelloBotellaCorregido                                 *)
(* (detector_cuellos_botella_corregido.py).                                *)
(*                                                                         *)
(* The detector object keeps its analysis in instance fields; every method *)
(* is one action over those fields.  Floating point values are modelled as *)
(* exact rationals <<n, d>> in lowest terms with d > 0, and nan as <<0, 0>>.*)
(* Eigenvalues are integers in units of 1/Escala.                          *)
(***************************************************************************)
EXTENDS Integers, Sequences, FiniteSets, TLC

VARIABLES
    pc,                    \* the method main() is about to call
    error,                 \* exception raised by the last call ("None" if none)
    datos_flujo,           \* self.datos_flujo
    matriz_transicion,     \* self.matriz_transicion
    eig_out,               \* what linalg.eig returns for the matrix
    autovalores,           \* self.autovalores
    autovectores,          \* self.autovectores
    autovalor_dominante,   \* self.autovalor_dominante
    autovector_dominante,  \* self.autovector_dominante
    cuello_botella_idx,    \* self.cuello_botella_idx
    cuello_botella_nombre, \* self.cuello_botella_nombre
    estabilidad,           \* value returned by analizar_estabilidad_sistema
    perdida,               \* the loss percentage it prints
    reporte,               \* the dictionary generar_reporte saves and returns
    traza,                 \* the methods called so far, in order
    salida                 \* what the run has produced: files and banners

vars == <<pc, error, datos_flujo, matriz_transicion, eig_out, autovalores,
          autovectores, autovalor_dominante, autovector_dominante,
          cuello_botella_idx, cuello_botella_nombre, estabilidad, perdida,
          reporte, traza, salida>>

None == "None"
\* nan, the value of 0.0 / 0.0
NaN == <<0, 0>>

-----------------------------------------------------------------------------
(* Bounds of the model.                                                    *)

\* flow counts typed by the user range over -MaxNeg..MaxCount
MaxCount == 2
MaxNeg == 1

\* eigenvalues returned by the solver range over -1..MaxEig (in units of
\* Escala), eigenvector components over -MaxComp..MaxComp
MaxEig == 1
MaxComp == 1

\* how many of the 6 eigenvalues range freely when the order is explored
NumLibres == 4

\* the integers typed at the prompts of a whole run range over 0..MaxEntrada
MaxEntrada == 0

\* dominant eigenvalues Escala - LambdaRadio .. Escala + LambdaRadio
LambdaRadio == 20

-----------------------------------------------------------------------------
(* Static configuration of the detector.                                   *)

NumEtapas == 6
NumProductivas == 4

Idx == 0..(NumEtapas - 1)
IdxProductivas == 0..(NumProductivas - 1)

etapas ==
    [i \in Idx |->
        CASE i = 0 -> "Amasado"
          [] i = 1 -> "Horneado"
          [] i = 2 -> "Empaque"
          [] i = 3 -> "Reproceso"
          [] i = 4 -> "Venta"
          [] i = 5 -> "Descarte"]

FlowKeys == {"A_to_H", "H_to_E", "H_to_R", "E_to_V", "E_to_R", "R_to_H", "R_to_D"}

valores_default ==
    [A_to_H |-> 1000, H_to_E |-> 944, H_to_R |-> 56, E_to_V |-> 921,
     E_to_R |-> 23, R_to_H |-> 59, R_to_D |-> 20]

\* self.datos_flujo = {} as __init__ leaves it
DatosVacios == [k \in {} |-> 0]

-----------------------------------------------------------------------------
(* Exact arithmetic standing for Python/NumPy float arithmetic.            *)

Abs(x) == IF x < 0 THEN -x ELSE x

RECURSIVE GCD(_, _)
GCD(a, b) == IF b = 0 THEN a ELSE GCD(b, a % b)

Cero == <<0, 1>>
Uno == <<1, 1>>

\* a / b for b # 0, in lowest terms with a positive denominator
Div(a, b) ==
    LET g == GCD(Abs(a), Abs(b))
        s == IF b < 0 THEN -1 ELSE 1
    IN  <<(s * a) \div g, Abs(b) \div g>>

RatAdd(x, y) == Div(x[1] * y[2] + y[1] * x[2], x[2] * y[2])
RatLess(x, y) == x[1] * y[2] < y[1] * x[2]
RatLeq(x, y) == x[1] * y[2] <= y[1] * x[2]

-----------------------------------------------------------------------------
(* construir_matriz_transicion                                             *)

\* np.zeros((6, 6), dtype=float)
Ceros == [i \in Idx |-> [j \in Idx |-> Cero]]

PasoAmasado(m) == [m EXCEPT ![0][1] = Uno]

PasoHorneado_SinNormalizar(m, d) ==
    LET total_h == d.H_to_E + d.H_to_R
    IN  IF total_h > 0
        THEN [m EXCEPT ![1][2] = Div(d.H_to_E, 1), ![1][3] = Div(d.H_to_R, 1)]
        ELSE m

PasoHorneado(m, d) ==
    LET total_h == d.H_to_E + d.H_to_R
    IN  IF total_h > 0
        THEN [m EXCEPT ![1][2] = Div(d.H_to_E, total_h),
                       ![1][3] = Div(d.H_to_R, total_h)]
        ELSE m

PasoEmpaque(m, d) ==
    LET total_e == d.E_to_V + d.E_to_R
    IN  IF total_e > 0
        THEN [m EXCEPT ![2][4] = Div(d.E_to_V, total_e),
                       ![2][3] = Div(d.E_to_R, total_e)]
        ELSE m

PasoReproceso_Cruzado(m, d) ==
    LET total_r == d.R_to_H + d.R_to_D
    IN  IF total_r > 0
        THEN [m EXCEPT ![3][1] = Div(d.R_to_D, total_r),
                       ![3][5] = Div(d.R_to_H, total_r)]
        ELSE m

PasoReproceso(m, d) ==
    LET total_r == d.R_to_H + d.R_to_D
    IN  IF total_r > 0
        THEN [m EXCEPT ![3][1] = Div(d.R_to_H, total_r),
                       ![3][5] = Div(d.R_to_D, total_r)]
        ELSE m

PasoAbsorbentes_SoloVenta(m) == [m EXCEPT ![4][4] = Uno]

PasoAbsorbentes(m) == [m EXCEPT ![4][4] = Uno, ![5][5] = Uno]

\* the matrix the method leaves when no lookup fails
MatrizConstruida(d) ==
    PasoAbsorbentes(
        PasoReproceso(PasoEmpaque(PasoHorneado(PasoAmasado(Ceros), d), d), d))

construir_SinReiniciar ==
    /\ pc = "construir_matriz_transicion"
    /\ IF DOMAIN datos_flujo = FlowKeys
       THEN /\ matriz_transicion' =
                   PasoAbsorbentes(
                       PasoReproceso(
                           PasoEmpaque(
                               PasoHorneado(PasoAmasado(matriz_transicion),
                                            datos_flujo),
                               datos_flujo),
                           datos_flujo))
            /\ error' = None
            /\ pc' = "calcular_autovalores_scipy"
       ELSE /\ matriz_transicion' = PasoAmasado(matriz_transicion)
            /\ error' = "KeyError"
            /\ pc' = "except"
    /\ traza' = Append(traza, "construir_matriz_transicion")
    /\ UNCHANGED <<datos_flujo, eig_out, autovalores, autovectores,
                   autovalor_dominante, autovector_dominante,
                   cuello_botella_idx, cuello_botella_nombre, estabilidad,
                   perdida, reporte, salida>>

\* the first dictionary lookup (line 137) raises KeyError on an empty dict,
\* after lines 131-134 have already replaced the matrix
construir_matriz_transicion ==
    /\ pc = "construir_matriz_transicion"
    /\ IF DOMAIN datos_flujo = FlowKeys
       THEN /\ matriz_transicion' = MatrizConstruida(datos_flujo)
            /\ error' = None
            /\ pc' = "calcular_autovalores_scipy"
       ELSE /\ matriz_transicion' = PasoAmasado(Ceros)
            /\ error' = "KeyError"
            /\ pc' = "except"
    /\ traza' = Append(traza, "construir_matriz_transicion")
    /\ UNCHANGED <<datos_flujo, eig_out, autovalores, autovectores,
                   autovalor_dominante, autovector_dominante,
                   cuello_botella_idx, cuello_botella_nombre, estabilidad,
                   perdida, reporte, salida>>

-----------------------------------------------------------------------------
(* Specification of the matrix builder: the detector holds any flow record *)
(* the ingestion can leave (or none yet), and the builder is called.       *)

Counts == (0 - MaxNeg)..MaxCount

FlowRecords == [FlowKeys -> Counts] \cup {valores_default}

InitMatriz ==
    /\ pc = "construir_matriz_transicion"
    /\ error = None
    /\ datos_flujo \in FlowRecords \cup {DatosVacios}
    /\ matriz_transicion = None
    /\ eig_out = None
    /\ autovalores = None
    /\ autovectores = None
    /\ autovalor_dominante = None
    /\ autovector_dominante = None
    /\ cuello_botella_idx = None
    /\ cuello_botella_nombre = None
    /\ estabilidad = None
    /\ perdida = None
    /\ reporte = None
    /\ traza = IF datos_flujo = DatosVacios THEN <<>>
               ELSE <<"ingresar_datos_flujo">>
    /\ salida = {}

NextMatriz == construir_matriz_transicion

SpecMatriz == InitMatriz /\ [][NextMatriz]_vars

-----------------------------------------------------------------------------
(* calcular_autovalores_scipy                                              *)

\* the integer that stands for the float 1.0, and the one for 0.001
Escala == 10000
Tolerancia == 10

\* np.real of a complex number <<re, im>>
Real(z) == z[1]

\* the orders in which the indices of S can follow one another with |w|
\* ascending: at each place, any remaining index of least magnitude
RECURSIVE Ascendentes(_, _)
Ascendentes(w, S) ==
    IF S = {} THEN {<<>>}
    ELSE LET menores == {i \in S : \A k \in S : Abs(w[i]) <= Abs(w[k])}
         IN  UNION {{<<i>> \o r : r \in Ascendentes(w, S \ {i})} :
                        i \in menores}

\* np.argsort(np.abs(w)): the index arrays that put |w| in ascending
\* order; the default sort kind is not stable, so equal magnitudes may
\* come out in any order
Argsort(w) == {[i \in Idx |-> r[i + 1]] : r \in Ascendentes(w, Idx)}

Invertir(p) == [i \in Idx |-> p[NumEtapas - 1 - i]]

\* np.argsort(np.abs(self.autovalores))[::-1]
IndicesOrden(w) == {Invertir(p) : p \in Argsort(w)}

\* self.autovalores[idx]
TomarValores(w, idx) == [i \in Idx |-> w[idx[i]]]

TomarColumnas_SinPermutar(v, idx) == v

\* self.autovectores[:, idx]
TomarColumnas(v, idx) == [j \in Idx |-> [i \in Idx |-> v[j][idx[i]]]]

\* self.autovectores[:, 0]
Columna(v, i) == [j \in Idx |-> v[j][i]]

RECURSIVE SumaEnteros(_, _)
SumaEnteros(x, j) == IF j < 0 THEN 0 ELSE SumaEnteros(x, j - 1) + x[j]

Normalizar_SinAbs(x) ==
    LET suma == SumaEnteros([j \in Idx |-> Abs(x[j])], NumEtapas - 1)
    IN  [j \in Idx |-> IF suma = 0 THEN NaN ELSE Div(x[j], suma)]

\* np.abs(x) / np.abs(x).sum(); NumPy turns 0.0 / 0.0 into nan
Normalizar(x) ==
    LET absx == [j \in Idx |-> Abs(x[j])]
        suma == SumaEnteros(absx, NumEtapas - 1)
    IN  [j \in Idx |-> IF suma = 0 THEN NaN ELSE Div(absx[j], suma)]

\* what the solver hands back when it raises LinAlgError instead
FallaSolver == [w |-> <<>>, v |-> <<>>]

calcular_autovalores_scipy ==
    /\ pc = "calcular_autovalores_scipy"
    /\ traza' = Append(traza, "calcular_autovalores_scipy")
    /\ IF DOMAIN eig_out.w = {}
       THEN /\ error' = "LinAlgError"
            /\ pc' = "except"
            /\ UNCHANGED <<autovalores, autovectores, autovalor_dominante,
                           autovector_dominante>>
       ELSE /\ LET w == [i \in Idx |-> Real(eig_out.w[i])]
                   v == [j \in Idx |-> [i \in Idx |-> Real(eig_out.v[j][i])]]
               IN  \E idx \in IndicesOrden(w) :
                       /\ autovalores' = TomarValores(w, idx)
                       /\ autovectores' = TomarColumnas(v, idx)
            /\ autovalor_dominante' = autovalores'[0]
            /\ autovector_dominante' = Normalizar(Columna(autovectores', 0))
            /\ error' = None
            /\ pc' = "analizar_estabilidad_sistema"
    /\ UNCHANGED <<datos_flujo, matriz_transicion, eig_out,
                   cuello_botella_idx, cuello_botella_nombre, estabilidad,
                   perdida, reporte, salida>>

-----------------------------------------------------------------------------
(* analizar_estabilidad_sistema                                            *)

Clasificar_SinTolerancia(lambda) ==
    IF lambda = Escala THEN "ESTABLE"
    ELSE IF lambda < Escala THEN "CON_PÉRDIDAS"
    ELSE "INESTABLE"

\* the if / elif / else of lines 275-289
Clasificar(lambda) ==
    IF Abs(lambda - Escala) < Tolerancia THEN "ESTABLE"
    ELSE IF lambda < Escala THEN "CON_PÉRDIDAS"
    ELSE "INESTABLE"

\* perdida = (1 - self.autovalor_dominante) * 100, computed in the elif only
Perdida(lambda) ==
    IF Clasificar(lambda) = "CON_PÉRDIDAS"
    THEN Div((Escala - lambda) * 100, Escala)
    ELSE None

analizar_AjustaAutovalor ==
    /\ pc = "analizar_estabilidad_sistema"
    /\ estabilidad' = Clasificar(autovalor_dominante)
    /\ perdida' = Perdida(autovalor_dominante)
    /\ autovalor_dominante' = Escala
    /\ error' = None
    /\ pc' = "identificar_cuello_botella"
    /\ traza' = Append(traza, "analizar_estabilidad_sistema")
    /\ UNCHANGED <<datos_flujo, matriz_transicion, eig_out, autovalores,
                   autovectores, autovector_dominante, cuello_botella_idx,
                   cuello_botella_nombre, reporte, salida>>

analizar_estabilidad_sistema ==
    /\ pc = "analizar_estabilidad_sistema"
    /\ estabilidad' = Clasificar(autovalor_dominante)
    /\ perdida' = Perdida(autovalor_dominante)
    /\ error' = None
    /\ pc' = "identificar_cuello_botella"
    /\ traza' = Append(traza, "analizar_estabilidad_sistema")
    /\ UNCHANGED <<datos_flujo, matriz_transicion, eig_out, autovalores,
                   autovectores, autovalor_dominante, autovector_dominante,
                   cuello_botella_idx, cuello_botella_nombre, reporte,
                   salida>>

-----------------------------------------------------------------------------
(* identificar_cuello_botella                                              *)

ValoresProductivos_Todos(x) == x

\* self.autovector_dominante[:4]
ValoresProductivos(x) == [i \in IdxProductivas |-> x[i]]

Argmax_Ultimo(x) ==
    IF \E i \in DOMAIN x : x[i] = NaN
    THEN CHOOSE i \in DOMAIN x :
            x[i] = NaN /\ \A k \in DOMAIN x : x[k] = NaN => i <= k
    ELSE CHOOSE i \in DOMAIN x :
            /\ \A k \in DOMAIN x : RatLeq(x[k], x[i])
            /\ \A k \in DOMAIN x : k > i => RatLess(x[k], x[i])

\* np.argmax: the first index holding the maximum, or the first nan
Argmax(x) ==
    IF \E i \in DOMAIN x : x[i] = NaN
    THEN CHOOSE i \in DOMAIN x :
            x[i] = NaN /\ \A k \in DOMAIN x : x[k] = NaN => i <= k
    ELSE CHOOSE i \in DOMAIN x :
            /\ \A k \in DOMAIN x : RatLeq(x[k], x[i])
            /\ \A k \in DOMAIN x : k < i => RatLess(x[k], x[i])

\* the index and the name are stored first (lines 244-245); the display loop
\* then raises ValueError at int(porcentaje * 2) when a share is nan
identificar_cuello_botella ==
    /\ pc = "identificar_cuello_botella"
    /\ LET valores_productivos == ValoresProductivos(autovector_dominante)
           max_idx_productivo == Argmax(valores_productivos)
       IN  /\ cuello_botella_idx' = max_idx_productivo
           /\ cuello_botella_nombre' = etapas[max_idx_productivo]
    /\ IF \E i \in Idx : autovector_dominante[i] = NaN
       THEN /\ error' = "ValueError"
            /\ pc' = "except"
       ELSE /\ error' = None
            /\ pc' = "generar_recomendaciones"
    /\ traza' = Append(traza, "identificar_cuello_botella")
    /\ UNCHANGED <<datos_flujo, matriz_transicion, eig_out, autovalores,
                   autovectores, autovalor_dominante, autovector_dominante,
                   estabilidad, perdida, reporte, salida>>

-----------------------------------------------------------------------------
(* Specification of the eigen-analysis: the matrix of the reference data   *)
(* has been built, linalg.eig returns some decomposition eig_out, and the  *)
(* three analysis methods run in the order main() calls them.              *)

EigVals == {k * Escala : k \in (-1)..MaxEig}
Comps == (0 - MaxComp)..MaxComp
Lambdas == ((Escala - LambdaRadio)..(Escala + LambdaRadio)) \cup {9500, 10100}

\* a decomposition with eigenvalues w and, as column i, the vector b
\* rotated by i places
Descomposicion(w, b) ==
    [w |-> w,
     v |-> [j \in Idx |-> [i \in Idx |-> <<b[(j + i) % NumEtapas], 0>>]]]

Reales(w) == [i \in Idx |-> <<w[i], 0>>]

BaseFija == [j \in Idx |-> CASE j = 0 -> 1 [] j = 1 -> -2 [] j = 2 -> 0
                             [] j = 3 -> 3 [] j = 4 -> 0 [] j = 5 -> 0]

WFijo == [i \in Idx |-> CASE i = 0 -> 5000 [] i = 1 -> -10000 [] i = 2 -> 2500
                          [] i = 3 -> 0 [] i = 4 -> 1250 [] i = 5 -> -7500]

\* free eigenvalues in the first NumLibres places, WFijo in the others
WLibre(f) == [i \in Idx |-> IF i < NumLibres THEN f[i] ELSE WFijo[i]]

\* a real eigenvalue lambda, a zero and two conjugate pairs of smaller
\* modulus, whose imaginary parts np.real drops
WDominante(lambda, im) ==
    [i \in Idx |-> CASE i = 0 -> <<0, 0>>
                     [] i = 1 -> <<-2500, im>>
                     [] i = 2 -> <<-2500, 0 - im>>
                     [] i = 3 -> <<lambda, 0>>
                     [] i = 4 -> <<1250, im>>
                     [] i = 5 -> <<1250, 0 - im>>]

Descomposiciones ==
    {Descomposicion(Reales(WLibre(f)), BaseFija) :
        f \in [0..(NumLibres - 1) -> EigVals]}
    \cup {Descomposicion(Reales(WFijo), b) : b \in [Idx -> Comps]}
    \cup {Descomposicion(WDominante(l, im), BaseFija) :
            l \in Lambdas, im \in {0, 4330}}

InitAutov ==
    /\ pc = "calcular_autovalores_scipy"
    /\ error = None
    /\ datos_flujo = valores_default
    /\ matriz_transicion = MatrizConstruida(valores_default)
    /\ eig_out \in Descomposiciones
    /\ autovalores = None
    /\ autovectores = None
    /\ autovalor_dominante = None
    /\ autovector_dominante = None
    /\ cuello_botella_idx = None
    /\ cuello_botella_nombre = None
    /\ estabilidad = None
    /\ perdida = None
    /\ reporte = None
    /\ traza = <<"ingresar_datos_flujo", "construir_matriz_transicion">>
    /\ salida = {}

NextAutov ==
    \/ calcular_autovalores_scipy
    \/ analizar_estabilidad_sistema
    \/ identificar_cuello_botella

SpecAutov == InitAutov /\ [][NextAutov]_vars

-----------------------------------------------------------------------------
(* ingresar_datos_flujo                                                    *)

\* what the user types at one prompt: nothing, an integer, or other text
Vacio == <<"vacio", 0>>
Invalido == <<"invalido", 0>>
Entero(n) == <<"int", n>>

Tokens == {Vacio, Invalido} \cup {Entero(n) : n \in 0..MaxEntrada}
Entradas == [FlowKeys -> Tokens]

\* int(val) if val.strip() else valores_default[k]; a ValueError anywhere
\* replaces the whole dictionary by a copy of the defaults
LeerDatos(e) ==
    IF \E k \in FlowKeys : e[k] = Invalido
    THEN valores_default
    ELSE [k \in FlowKeys |->
             IF e[k] = Vacio THEN valores_default[k] ELSE e[k][2]]

\* the dictionary is filled first; _mostrar_resumen_flujo then divides by
\* A_to_H (line 120) and raises ZeroDivisionError when it is 0
Ingresar(entradas) ==
    /\ pc = "ingresar_datos_flujo"
    /\ \E e \in entradas : datos_flujo' = LeerDatos(e)
    /\ IF datos_flujo'.A_to_H = 0
       THEN /\ error' = "ZeroDivisionError"
            /\ pc' = "except"
       ELSE /\ error' = None
            /\ pc' = "construir_matriz_transicion"
    /\ traza' = Append(traza, "ingresar_datos_flujo")
    /\ UNCHANGED <<matriz_transicion, eig_out, autovalores, autovectores,
                   autovalor_dominante, autovector_dominante,
                   cuello_botella_idx, cuello_botella_nombre, estabilidad,
                   perdida, reporte, salida>>

ingresar_datos_flujo == Ingresar(Entradas)

-----------------------------------------------------------------------------
(* generar_recomendaciones, crear_visualizaciones, generar_reporte         *)

\* the list it returns is dropped by main(); the efficiency divides by
\* A_to_H (line 312)
generar_recomendaciones ==
    /\ pc = "generar_recomendaciones"
    /\ IF datos_flujo.A_to_H = 0
       THEN /\ error' = "ZeroDivisionError"
            /\ pc' = "except"
       ELSE /\ error' = None
            /\ pc' = "crear_visualizaciones"
    /\ traza' = Append(traza, "generar_recomendaciones")
    /\ UNCHANGED <<datos_flujo, matriz_transicion, eig_out, autovalores,
                   autovectores, autovalor_dominante, autovector_dominante,
                   cuello_botella_idx, cuello_botella_nombre, estabilidad,
                   perdida, reporte, salida>>

crear_visualizaciones_SigueTrasError ==
    /\ pc = "crear_visualizaciones"
    /\ \E guardado \in BOOLEAN :
           IF guardado
           THEN /\ salida' = salida \cup {"grafico"}
                /\ error' = None
           ELSE /\ error' = "OSError"
                /\ UNCHANGED salida
    /\ pc' = "generar_reporte"
    /\ traza' = Append(traza, "crear_visualizaciones")
    /\ UNCHANGED <<datos_flujo, matriz_transicion, eig_out, autovalores,
                   autovectores, autovalor_dominante, autovector_dominante,
                   cuello_botella_idx, cuello_botella_nombre, estabilidad,
                   perdida, reporte>>

\* the figure only reads the fields; plt.savefig writes a file and may
\* raise OSError
crear_visualizaciones ==
    /\ pc = "crear_visualizaciones"
    /\ \E guardado \in BOOLEAN :
           IF guardado
           THEN /\ salida' = salida \cup {"grafico"}
                /\ error' = None
                /\ pc' = "generar_reporte"
           ELSE /\ error' = "OSError"
                /\ pc' = "except"
                /\ UNCHANGED salida
    /\ traza' = Append(traza, "crear_visualizaciones")
    /\ UNCHANGED <<datos_flujo, matriz_transicion, eig_out, autovalores,
                   autovectores, autovalor_dominante, autovector_dominante,
                   cuello_botella_idx, cuello_botella_nombre, estabilidad,
                   perdida, reporte>>

\* x * 100 for a float x
PorCien(x) == Div(x[1] * 100, x[2])

\* 'ESTABLE' if abs(self.autovalor_dominante - 1.0) < 0.001 else 'INESTABLE'
EstabilidadReporte(lambda) ==
    IF Abs(lambda - Escala) < Tolerancia THEN "ESTABLE" ELSE "INESTABLE"

\* the dictionary of lines 477-498 (without the date and the fixed texts)
Reporte ==
    [datos_flujo |-> datos_flujo,
     cuello_botella |-> cuello_botella_nombre,
     cuello_botella_porcentaje |->
         PorCien(autovector_dominante[cuello_botella_idx]),
     autovalor_dominante |-> autovalor_dominante,
     distribucion_flujo |->
         [n \in {etapas[i] : i \in Idx} |->
             autovector_dominante[CHOOSE i \in Idx : etapas[i] = n]],
     eficiencia_general |->
         Div(datos_flujo.E_to_V * 100, datos_flujo.A_to_H),
     tasa_reproceso |->
         Div((datos_flujo.H_to_R + datos_flujo.E_to_R) * 100,
             datos_flujo.A_to_H),
     estabilidad_sistema |-> EstabilidadReporte(autovalor_dominante)]

\* building the dictionary divides by A_to_H (line 489); open() may raise
\* OSError, and then nothing is saved or returned
generar_reporte ==
    /\ pc = "generar_reporte"
    /\ IF datos_flujo.A_to_H = 0
       THEN /\ error' = "ZeroDivisionError"
            /\ pc' = "except"
            /\ UNCHANGED <<reporte, salida>>
       ELSE \E guardado \in BOOLEAN :
                IF guardado
                THEN /\ reporte' = Reporte
                     /\ salida' = salida \cup {"reporte"}
                     /\ error' = None
                     /\ pc' = "exito"
                ELSE /\ error' = "OSError"
                     /\ pc' = "except"
                     /\ UNCHANGED <<reporte, salida>>
    /\ traza' = Append(traza, "generar_reporte")
    /\ UNCHANGED <<datos_flujo, matriz_transicion, eig_out, autovalores,
                   autovectores, autovalor_dominante, autovector_dominante,
                   cuello_botella_idx, cuello_botella_nombre, estabilidad,
                   perdida>>

-----------------------------------------------------------------------------
(* main                                                                    *)

\* the order of the calls in the try block
OrdenMain ==
    <<"ingresar_datos_flujo", "construir_matriz_transicion",
      "calcular_autovalores_scipy", "analizar_estabilidad_sistema",
      "identificar_cuello_botella", "generar_recomendaciones",
      "crear_visualizaciones", "generar_reporte">>

\* the banner printed after the last call (lines 550-553)
main_exito ==
    /\ pc = "exito"
    /\ salida' = salida \cup {"exito"}
    /\ pc' = "fin"
    /\ UNCHANGED <<error, datos_flujo, matriz_transicion, eig_out,
                   autovalores, autovectores, autovalor_dominante,
                   autovector_dominante, cuello_botella_idx,
                   cuello_botella_nombre, estabilidad, perdida, reporte,
                   traza>>

\* except Exception as e: the message of lines 556-557
main_except ==
    /\ pc = "except"
    /\ salida' = salida \cup {"error"}
    /\ pc' = "fin"
    /\ UNCHANGED <<error, datos_flujo, matriz_transicion, eig_out,
                   autovalores, autovectores, autovalor_dominante,
                   autovector_dominante, cuello_botella_idx,
                   cuello_botella_nombre, estabilidad, perdida, reporte,
                   traza>>

VectorNulo == [j \in Idx |-> 0]

\* what linalg.eig may do in a whole run: return a decomposition whose
\* dominant eigenvalue is 0.95, 1.0 or 1.01, return a null top eigenvector,
\* or fail to converge
DescomposicionesMain ==
    {Descomposicion(WDominante(l, 4330), BaseFija) :
        l \in {9500, 10000, 10100}}
    \cup {Descomposicion(Reales(WFijo), VectorNulo), FallaSolver}

\* the detector as __init__ leaves it
InitMain ==
    /\ pc = "ingresar_datos_flujo"
    /\ error = None
    /\ datos_flujo = DatosVacios
    /\ matriz_transicion = None
    /\ eig_out \in DescomposicionesMain
    /\ autovalores = None
    /\ autovectores = None
    /\ autovalor_dominante = None
    /\ autovector_dominante = None
    /\ cuello_botella_idx = None
    /\ cuello_botella_nombre = None
    /\ estabilidad = None
    /\ perdida = None
    /\ reporte = None
    /\ traza = <<>>
    /\ salida = {}

NextMain ==
    \/ ingresar_datos_flujo
    \/ construir_matriz_transicion
    \/ calcular_autovalores_scipy
    \/ analizar_estabilidad_sistema
    \/ identificar_cuello_botella
    \/ generar_recomendaciones
    \/ crear_visualizaciones
    \/ generar_reporte
    \/ main_exito
    \/ main_except

SpecMain == InitMain /\ [][NextMain]_vars

-----------------------------------------------------------------------------
(* Specification of repeated builds: one detector, already built once on   *)
(* the reference data, is given new flow data and built again, any number  *)
(* of times.                                                               *)

\* the prompts of the six flows the builder reads; A_to_H is left blank
EntradasRecons == {e \in Entradas : e["A_to_H"] = Vacio}

\* the matrix of the bakery example, as the first build leaves it
MatrizReferencia ==
    [i \in Idx |-> [j \in Idx |->
        CASE <<i, j>> = <<0, 1>> -> Uno
          [] <<i, j>> = <<1, 2>> -> <<118, 125>>
          [] <<i, j>> = <<1, 3>> -> <<7, 125>>
          [] <<i, j>> = <<2, 4>> -> <<921, 944>>
          [] <<i, j>> = <<2, 3>> -> <<23, 944>>
          [] <<i, j>> = <<3, 1>> -> <<59, 79>>
          [] <<i, j>> = <<3, 5>> -> <<20, 79>>
          [] <<i, j>> = <<4, 4>> -> Uno
          [] <<i, j>> = <<5, 5>> -> Uno
          [] OTHER -> Cero]]

InitRecons ==
    /\ pc = "ingresar_datos_flujo"
    /\ error = None
    /\ datos_flujo = valores_default
    /\ matriz_transicion = MatrizReferencia
    /\ eig_out = None
    /\ autovalores = None
    /\ autovectores = None
    /\ autovalor_dominante = None
    /\ autovector_dominante = None
    /\ cuello_botella_idx = None
    /\ cuello_botella_nombre = None
    /\ estabilidad = None
    /\ perdida = None
    /\ reporte = None
    /\ traza = <<>>
    /\ salida = {}

\* the caller starts over on the same detector: the fields stay as they are
otra_vez ==
    /\ pc = "calcular_autovalores_scipy"
    /\ pc' = "ingresar_datos_flujo"
    /\ traza' = <<>>
    /\ UNCHANGED <<error, datos_flujo, matriz_transicion, eig_out,
                   autovalores, autovectores, autovalor_dominante,
                   autovector_dominante, cuello_botella_idx,
                   cuello_botella_nombre, estabilidad, perdida, reporte,
                   salida>>

NextRecons ==
    \/ Ingresar(EntradasRecons)
    \/ construir_matriz_transicion
    \/ otra_vez

SpecRecons == InitRecons /\ [][NextRecons]_vars

-----------------------------------------------------------------------------
(* Properties of the matrix builder, checked under SpecMatriz.             *)

\* the builder has returned normally on a complete flow record
MatrizLista ==
    /\ pc = "calcular_autovalores_scipy"
    /\ error = None
    /\ DOMAIN datos_flujo = FlowKeys

\* the recorded flows: <<key, source index, destination index>>
Registros ==
    {<<"A_to_H", 0, 1>>, <<"H_to_E", 1, 2>>, <<"H_to_R", 1, 3>>,
     <<"E_to_V", 2, 4>>, <<"E_to_R", 2, 3>>, <<"R_to_H", 3, 1>>,
     <<"R_to_D", 3, 5>>}

RECURSIVE SumaConteos(_, _)
SumaConteos(d, rs) ==
    IF rs = {} THEN 0
    ELSE LET r == CHOOSE x \in rs : TRUE
         IN  d[r[1]] + SumaConteos(d, rs \ {r})

\* total(s): the sum of the counts recorded out of stage s
Total(d, s) == SumaConteos(d, {r \in Registros : r[2] = s})

FlujoValido(d) ==
    /\ \A k \in FlowKeys : d[k] >= 0
    /\ \A s \in IdxProductivas : Total(d, s) > 0

RECURSIVE SumaFila(_, _)
SumaFila(fila, j) ==
    IF j < 0 THEN Cero ELSE RatAdd(SumaFila(fila, j - 1), fila[j])

EnUnidad(x) == RatLeq(Cero, x) /\ RatLeq(x, Uno)

\* C1: for a flow record with non-negative counts and a positive total out
\* of every productive stage, each of the 6 rows of the built matrix sums
\* to exactly 1.
C1_FilasSumanUno ==
    (MatrizLista /\ FlujoValido(datos_flujo)) =>
        \A i \in Idx : SumaFila(matriz_transicion[i], NumEtapas - 1) = Uno

C1_Witness ==
    /\ MatrizLista
    /\ FlujoValido(datos_flujo)
    /\ datos_flujo.H_to_E = 1
    /\ datos_flujo.H_to_R = 2
    /\ matriz_transicion[1][3] = <<2, 3>>

\* C2: after the builder has run on any flow record, zero and negative
\* counts included, the rows of Venta (4) and Descarte (5) hold exactly 1
\* on the diagonal and 0 in every other column.
C2_AbsorbentesFijos ==
    MatrizLista =>
        \A a \in Idx \ IdxProductivas :
            \A j \in Idx :
                matriz_transicion[a][j] = IF j = a THEN Uno ELSE Cero

C2_Witness ==
    /\ MatrizLista
    /\ datos_flujo.R_to_D < 0
    /\ datos_flujo.E_to_V = 0
    /\ matriz_transicion[5][5] = Uno
    /\ matriz_transicion[4][4] = Uno

\* C5 (as claimed): when some productive stage has zero total outgoing
\* flow, the builder raises InvalidFlowData and produces no matrix.
C5_CeroLanzaInvalidFlowData ==
    (/\ pc # "construir_matriz_transicion"
     /\ DOMAIN datos_flujo = FlowKeys
     /\ \E s \in IdxProductivas : Total(datos_flujo, s) = 0)
    => (error = "InvalidFlowData" /\ pc = "except")

\* C6 (as claimed): when some count is negative the builder raises
\* InvalidFlowData, so every entry of a matrix it produces lies in [0, 1].
C6_NegativoLanzaInvalidFlowData ==
    (/\ pc # "construir_matriz_transicion"
     /\ DOMAIN datos_flujo = FlowKeys)
    => /\ (\E k \in FlowKeys : datos_flujo[k] < 0)
            => (error = "InvalidFlowData" /\ pc = "except")
       /\ pc = "calcular_autovalores_scipy"
            => \A i, j \in Idx : EnUnidad(matriz_transicion[i][j])

\* C8: for every productive stage s whose total outgoing count is positive,
\* row s of the built matrix holds count(s,d)/total(s) in the column of each
\* recorded destination d and 0 in every other column.
C8_EntradasSonProporciones ==
    MatrizLista =>
        \A s \in IdxProductivas :
            Total(datos_flujo, s) > 0 =>
                \A j \in Idx :
                    LET rs == {r \in Registros : r[2] = s /\ r[3] = j}
                        x == matriz_transicion[s][j]
                    IN  IF rs = {}
                        THEN x[1] = 0
                        ELSE \A r \in rs :
                                x[1] * Total(datos_flujo, s)
                                    = datos_flujo[r[1]] * x[2]

\* the reference data of the bakery
C8_Witness ==
    /\ MatrizLista
    /\ datos_flujo = valores_default
    /\ matriz_transicion[0][1] = Uno
    /\ matriz_transicion[1][2] = <<118, 125>>
    /\ matriz_transicion[1][3] = <<7, 125>>
    /\ matriz_transicion[3][1] = <<59, 79>>
    /\ matriz_transicion[3][5] = <<20, 79>>

-----------------------------------------------------------------------------
(* Properties of the eigen-analysis, checked under SpecAutov.              *)

\* the methods that have returned, by the place main() has reached
AutovaloresListos ==
    pc \in {"analizar_estabilidad_sistema", "identificar_cuello_botella",
            "generar_recomendaciones"}
EstabilidadLista ==
    pc \in {"identificar_cuello_botella", "generar_recomendaciones"}
CuelloListo == pc = "generar_recomendaciones"

EsDistribucion(x) == \A j \in Idx : x[j] # NaN

\* C3: whatever the dominant distribution, the bottleneck is one of the
\* four productive stages and its index is below 4, also when an absorbing
\* state holds a strictly larger value than every productive state.
C3_CuelloEsProductivo ==
    CuelloListo =>
        /\ cuello_botella_idx \in IdxProductivas
        /\ cuello_botella_nombre \in
               {"Amasado", "Horneado", "Empaque", "Reproceso"}
        /\ cuello_botella_nombre = etapas[cuello_botella_idx]

C3_Witness ==
    /\ CuelloListo
    /\ EsDistribucion(autovector_dominante)
    /\ \A i \in IdxProductivas :
           RatLess(autovector_dominante[i], autovector_dominante[4])
    /\ cuello_botella_idx = 2

\* C4: the bottleneck holds the maximum of the distribution over the
\* productive indices 0..3, and among several productive states sharing
\* that maximum it is the one of lowest index.
C4_PrimerMaximoProductivo ==
    (CuelloListo /\ EsDistribucion(autovector_dominante)) =>
        /\ \A i \in IdxProductivas :
               RatLeq(autovector_dominante[i],
                      autovector_dominante[cuello_botella_idx])
        /\ \A i \in IdxProductivas :
               i < cuello_botella_idx =>
                   RatLess(autovector_dominante[i],
                           autovector_dominante[cuello_botella_idx])

C4_Witness ==
    /\ CuelloListo
    /\ EsDistribucion(autovector_dominante)
    /\ cuello_botella_idx = 1
    /\ autovector_dominante[3] = autovector_dominante[1]
    /\ RatLess(autovector_dominante[0], autovector_dominante[1])
    /\ RatLess(autovector_dominante[2], autovector_dominante[1])

\* C7: with eps = 0.001, |lambda - 1| < eps is classified stable,
\* lambda < 1 - eps lossy with loss 1 - lambda (printed as a percentage),
\* lambda > 1 + eps unstable; 1.0 is stable, 0.95 lossy with loss 0.05 (5%),
\* 1.01 unstable.
C7_ClasificacionEstabilidad ==
    EstabilidadLista =>
        LET lambda == autovalor_dominante
        IN  /\ Abs(lambda - Escala) < Tolerancia => estabilidad = "ESTABLE"
            /\ lambda < Escala - Tolerancia =>
                   /\ estabilidad = "CON_PÉRDIDAS"
                   /\ perdida[1] * Escala = 100 * (Escala - lambda) * perdida[2]
            /\ lambda > Escala + Tolerancia => estabilidad = "INESTABLE"
            /\ lambda = 10000 => estabilidad = "ESTABLE"
            /\ lambda = 9500 =>
                   estabilidad = "CON_PÉRDIDAS" /\ perdida = <<5, 1>>
            /\ lambda = 10100 => estabilidad = "INESTABLE"

C7_Witness ==
    /\ EstabilidadLista
    /\ autovalor_dominante = 9500
    /\ estabilidad = "CON_PÉRDIDAS"
    /\ perdida = <<5, 1>>

\* C9: when the top eigenvector has a non-zero sum of absolute values, every
\* component of autovector_dominante is >= 0, the components sum to 1, and
\* each equals |v_i| divided by the sum of the |v_j|.
C9_DistribucionValida ==
    AutovaloresListos =>
        LET top == Columna(autovectores, 0)
            suma == SumaEnteros([j \in Idx |-> Abs(top[j])], NumEtapas - 1)
        IN  suma # 0 =>
                /\ EsDistribucion(autovector_dominante)
                /\ \A j \in Idx :
                       /\ RatLeq(Cero, autovector_dominante[j])
                       /\ autovector_dominante[j][2] > 0
                       /\ autovector_dominante[j][1] * suma
                              = Abs(top[j]) * autovector_dominante[j][2]
                /\ SumaFila(autovector_dominante, NumEtapas - 1) = Uno

C9_Witness ==
    /\ AutovaloresListos
    /\ EsDistribucion(autovector_dominante)
    /\ autovectores[2][0] < 0
    /\ autovectores[4][0] > 0
    /\ RatLess(Cero, autovector_dominante[2])
    /\ RatLess(autovector_dominante[2], autovector_dominante[4])

\* the pair (real eigenvalue, real eigenvector) the solver returned at k
ParSolver(k) ==
    <<Real(eig_out.w[k]), [j \in Idx |-> Real(eig_out.v[j][k])]>>

\* the pair the detector holds at position i
ParOrdenado(i) == <<autovalores[i], Columna(autovectores, i)>>

\* C10: after the eigen computation autovalores is in non-increasing order
\* of absolute value, the (value, column) pairs held are a permutation of
\* the pairs the solver returned, and autovalor_dominante is a value of
\* maximum absolute value whose paired vector autovector_dominante was
\* normalized from.
C10_OrdenYPares ==
    AutovaloresListos =>
        /\ \A i \in 0..(NumEtapas - 2) :
               Abs(autovalores[i]) >= Abs(autovalores[i + 1])
        /\ \A k \in Idx :
               Cardinality({i \in Idx : ParOrdenado(i) = ParSolver(k)})
                   = Cardinality({h \in Idx : ParSolver(h) = ParSolver(k)})
        /\ autovalor_dominante = autovalores[0]
        /\ \A k \in Idx : Abs(Real(eig_out.w[k])) <= Abs(autovalor_dominante)
        /\ \E k \in Idx :
               /\ ParSolver(k)[1] = autovalor_dominante
               /\ LET x == ParSolver(k)[2]
                      suma == SumaEnteros([j \in Idx |-> Abs(x[j])],
                                          NumEtapas - 1)
                  IN  \A j \in Idx :
                          IF suma = 0
                          THEN autovector_dominante[j] = NaN
                          ELSE /\ autovector_dominante[j] # NaN
                               /\ autovector_dominante[j][1] * suma
                                      = Abs(x[j]) * autovector_dominante[j][2]

\* the solver's first eigenvalue is not the dominant one, and two values
\* of equal magnitude and opposite sign head the order
C10_Witness ==
    /\ AutovaloresListos
    /\ Real(eig_out.w[0]) = 0
    /\ Real(eig_out.w[1]) = Escala
    /\ Real(eig_out.w[3]) = 0 - Escala
    /\ autovalor_dominante = 0 - Escala
    /\ autovalores[1] = Escala
    /\ autovalores[5] = 0
    /\ ParOrdenado(0) = ParSolver(3)
    /\ ParOrdenado(1) = ParSolver(1)

-----------------------------------------------------------------------------
(* Properties of repeated builds, checked under SpecRecons.                *)

\* count / total, or the 0 of np.zeros when the stage recorded no flow
Proporcion(d, k, s) ==
    IF Total(d, s) > 0 THEN Div(d[k], Total(d, s)) ELSE Cero

\* m is the matrix determined by the record d alone: every recorded flow
\* holds its proportion, the two absorbing diagonals and Amasado->Horneado
\* hold 1, every other entry is 0
EsMatrizDe(m, d) ==
    \A i, j \in Idx :
        m[i][j] =
            IF <<i, j>> \in {<<0, 1>>, <<4, 4>>, <<5, 5>>} THEN Uno
            ELSE IF \E r \in Registros : r[2] = i /\ r[3] = j
                 THEN LET r == CHOOSE x \in Registros : x[2] = i /\ x[3] = j
                      IN  Proporcion(d, r[1], i)
                 ELSE Cero

\* C11: whatever was built before on the same detector, the matrix a build
\* leaves is the one determined by the flow record it was called with, so
\* building twice on one record gives the same matrix and no entry of an
\* earlier build survives.
C11_ConstruirSoloDependeDelRegistro ==
    MatrizLista => EsMatrizDe(matriz_transicion, datos_flujo)

\* a rebuild with no flow out of Horneado, after a build whose Horneado row
\* was not zero
C11_Witness ==
    /\ MatrizLista
    /\ datos_flujo.H_to_E = 0
    /\ datos_flujo.H_to_R = 0
    /\ datos_flujo.R_to_H = 59
    /\ matriz_transicion[1][2] = Cero
    /\ matriz_transicion[3][1] = <<59, 79>>

-----------------------------------------------------------------------------
(* Properties of a whole run of main, checked under SpecMain.              *)

EtapasTrasConstruir ==
    {"calcular_autovalores_scipy", "analizar_estabilidad_sistema",
     "identificar_cuello_botella", "generar_recomendaciones",
     "crear_visualizaciones", "generar_reporte"}

EtapasTrasCalcular == EtapasTrasConstruir \ {"calcular_autovalores_scipy"}

\* C12: a step of a stage that follows construir_matriz_transicion leaves
\* matriz_transicion and datos_flujo as they were, and a step of a stage
\* that follows calcular_autovalores_scipy leaves autovalores,
\* autovalor_dominante and autovector_dominante as they were, whether the
\* stage returns or raises.
C12_EtapasNoMutanLoAnterior ==
    [][/\ pc \in EtapasTrasConstruir =>
            /\ matriz_transicion' = matriz_transicion
            /\ datos_flujo' = datos_flujo
       /\ pc \in EtapasTrasCalcular =>
            /\ autovalores' = autovalores
            /\ autovalor_dominante' = autovalor_dominante
            /\ autovector_dominante' = autovector_dominante]_vars

\* every stage has run on a lossy system and the outputs of the builder
\* and of the eigen stage are still the ones those stages produced
C12_Witness ==
    /\ pc = "exito"
    /\ traza = OrdenMain
    /\ EsMatrizDe(matriz_transicion, datos_flujo)
    /\ datos_flujo.H_to_E = 0
    /\ autovalor_dominante = 9500
    /\ autovalores[0] = 9500
    /\ autovector_dominante[0] = <<1, 2>>

EsPrefijo(t, o) ==
    /\ Len(t) <= Len(o)
    /\ \A i \in 1..Len(t) : t[i] = o[i]

Etapas == {OrdenMain[i] : i \in 1..Len(OrdenMain)}

\* C13: the stages main has run form a prefix of the fixed order; the stage
\* about to run is the next one of that order and every stage before it
\* returned without error; once a stage has raised, no further stage runs,
\* no report is produced and the success banner is not printed.
C13_EtapasEnOrdenYCorteAlError ==
    /\ [](/\ EsPrefijo(traza, OrdenMain)
          /\ pc \in Etapas =>
                 /\ error = None
                 /\ Len(traza) < Len(OrdenMain)
                 /\ pc = OrdenMain[Len(traza) + 1]
          /\ error # None =>
                 /\ pc \in {"except", "fin"}
                 /\ "reporte" \notin salida
                 /\ "exito" \notin salida)
    /\ [][error # None =>
              /\ traza' = traza
              /\ error' = error
              /\ reporte' = reporte]_vars

\* identificar_cuello_botella raised on a nan share: the run ended after
\* five stages with the error message only
C13_Witness ==
    /\ pc = "fin"
    /\ error = "ValueError"
    /\ traza = SubSeq(OrdenMain, 1, 5)
    /\ salida = {"error"}

Regimenes == {"ESTABLE", "CON_PÉRDIDAS", "INESTABLE"}

\* C14 (as claimed): the 'estabilidad_sistema' of a saved report is the
\* verdict analizar_estabilidad_sistema gave for the same dominant
\* eigenvalue, one of the three regimes.
C14_ReporteRepiteElVeredicto ==
    "reporte" \in salida =>
        /\ reporte.autovalor_dominante = autovalor_dominante
        /\ reporte.estabilidad_sistema \in Regimenes
        /\ reporte.estabilidad_sistema = estabilidad
        /\ reporte.estabilidad_sistema = Clasificar(autovalor_dominante)

====
